---------------------------- MODULE Spec2Model ----------------------------
(***************************************************************************)
(* A model of twod_materials/pourbaix/startup.py: the three procedures     *)
(* get_experimental_formation_energies, relax_references and               *)
(* get_corrections, run by one sequential caller over a shared directory   *)
(* tree.                                                                   *)
(*                                                                         *)
(* Strings the code takes apart (potcar types, element symbols, directory  *)
(* names, formulas) are sequences of one-character strings, so that        *)
(* element.split('_')[0] and "'2' in formula" are computed, not looked up. *)
(* Messages the code only stores or concatenates are TLA+ strings.         *)
(* Decimal numbers read from a file (the YAML tables, vasprun.xml) are     *)
(* rationals <<numerator, denominator>> in lowest terms.  Python reads     *)
(* them as floats and computes in IEEE 754 double precision: the model     *)
(* does the same, operation by operation, with each result rounded to the  *)
(* nearest double, so that round() sees the value the code gives it.       *)
(***************************************************************************)
EXTENDS Integers, Sequences, FiniteSets, TLC

\* ------------------------------------------------------------------------
\* Bounds of the model

\* Longest potcar_types list the caller passes to relax_references.
MaxLen == 3

\* ------------------------------------------------------------------------
\* Names

Mo == <<"M", "o">>
N == <<"N">>
O == <<"O">>
S == <<"S">>
F == <<"F">>
Cl == <<"C", "l">>
Br == <<"B", "r">>
I == <<"I">>
Mo_pv == <<"M", "o", "_", "p", "v">>
O_s == <<"O", "_", "s">>
\* A potcar type with nothing before its '_'.
NoSymbol == <<"_", "x">>
O2 == <<"O", "2">>
oxide == <<"o", "x", "i", "d", "e">>
POSCAR == <<"P", "O", "S", "C", "A", "R">>
POTCAR == <<"P", "O", "T", "C", "A", "R">>

\* ------------------------------------------------------------------------
\* Decimal literals

Abs(x) == IF x < 0 THEN -x ELSE x

RECURSIVE GCD(_, _)
GCD(a, b) == IF b = 0 THEN Abs(a) ELSE GCD(b, a % b)

\* n/d in lowest terms, d # 0.
Norm(n, d) ==
    LET g == GCD(Abs(n), Abs(d))
        s == IF d < 0 THEN -1 ELSE 1
    IN  <<(s * n) \div g, (s * d) \div g>>

\* A decimal literal with two or three places: Centi(3848) is 38.48.
Centi(n) == Norm(n, 100)
Milli(n) == Norm(n, 1000)

\* ------------------------------------------------------------------------
\* Natural numbers of any size: the limbs of base 2^15, lowest first,
\* without leading zeros at the top; <<>> is 0.

Base == 32768

\* 2^n, for 0 <= n <= 15.
Pow2(n) ==
    <<1, 2, 4, 8, 16, 32, 64, 128, 256, 512, 1024, 2048, 4096, 8192, 16384,
      32768>>[n + 1]

Smallest(m, n) == IF m < n THEN m ELSE n
Largest(m, n) == IF m > n THEN m ELSE n

RECURSIVE BigTrim(_)
BigTrim(a) ==
    IF a # <<>> /\ a[Len(a)] = 0 THEN BigTrim(SubSeq(a, 1, Len(a) - 1))
    ELSE a

RECURSIVE BigOf(_)
BigOf(n) == IF n = 0 THEN <<>> ELSE <<n % Base>> \o BigOf(n \div Base)

Limb(a, j) == IF j >= 1 /\ j <= Len(a) THEN a[j] ELSE 0

RECURSIVE BigCmpAt(_, _, _)
BigCmpAt(a, b, j) ==
    IF j = 0 THEN 0
    ELSE IF Limb(a, j) < Limb(b, j) THEN -1
    ELSE IF Limb(a, j) > Limb(b, j) THEN 1
    ELSE BigCmpAt(a, b, j - 1)
\* -1, 0 or 1 as a is below, equal to or above b.
BigCmp(a, b) == BigCmpAt(a, b, Largest(Len(a), Len(b)))

RECURSIVE BigAddAt(_, _, _, _)
BigAddAt(a, b, j, carry) ==
    IF j > Len(a) /\ j > Len(b) THEN BigOf(carry)
    ELSE <<(Limb(a, j) + Limb(b, j) + carry) % Base>>
         \o BigAddAt(a, b, j + 1, (Limb(a, j) + Limb(b, j) + carry) \div Base)
BigAdd(a, b) == BigAddAt(a, b, 1, 0)

RECURSIVE BigSubAt(_, _, _, _)
BigSubAt(a, b, j, borrow) ==
    IF j > Len(a) THEN <<>>
    ELSE <<(a[j] - Limb(b, j) - borrow + Base) % Base>>
         \o BigSubAt(a, b, j + 1,
                     IF a[j] - Limb(b, j) - borrow < 0 THEN 1 ELSE 0)
\* a - b, for a >= b.
BigSub(a, b) == BigTrim(BigSubAt(a, b, 1, 0))

RECURSIVE BigMulSmallAt(_, _, _, _)
BigMulSmallAt(a, k, j, carry) ==
    IF j > Len(a) THEN BigOf(carry)
    ELSE <<(a[j] * k + carry) % Base>>
         \o BigMulSmallAt(a, k, j + 1, (a[j] * k + carry) \div Base)
\* a * k, for 0 <= k < Base.
BigMulSmall(a, k) == IF k = 0 THEN <<>> ELSE BigMulSmallAt(a, k, 1, 0)

\* a * Base
BigUp(a) == IF a = <<>> THEN <<>> ELSE <<0>> \o a

RECURSIVE BigMul(_, _)
BigMul(a, b) ==
    IF a = <<>> \/ b = <<>> THEN <<>>
    ELSE BigAdd(BigMulSmall(a, Head(b)), BigUp(BigMul(a, Tail(b))))

\* a * 2^n
Shl(a, n) ==
    IF a = <<>> THEN <<>>
    ELSE [j \in 1..(n \div 15) |-> 0] \o BigMulSmall(a, Pow2(n % 15))

\* The number of binary digits of a limb.
BitsOf(n) == CHOOSE k \in 0..15 : n < Pow2(k) /\ (k = 0 \/ n >= Pow2(k - 1))
\* The number of binary digits of a.
BitLen(a) == IF a = <<>> THEN 0 ELSE 15 * (Len(a) - 1) + BitsOf(a[Len(a)])

\* a \div 2^n, for 0 <= n < 15 and a a multiple of 2^n.
Shr(a, n) ==
    BigTrim(SubSeq([j \in 1..Len(a) |->
                       (a[j] \div Pow2(n))
                       + (Limb(a, j + 1) % Pow2(n)) * Pow2(15 - n)],
                   1, Len(a)))

\* One digit of a long division, x \div d for x < d * Base and d with a top
\* limb of at least Base / 2: the two top limbs of x divided by the top
\* limb of d are the digit (q0) or exceed it by at most two.
BigGuess(x, d) ==
    Smallest(Base - 1,
             (Limb(x, Len(d) + 1) * Base + Limb(x, Len(d))) \div d[Len(d)])
BigQuot(x, d, q0) ==
    IF BigCmp(BigMulSmall(d, q0), x) <= 0 THEN q0
    ELSE IF BigCmp(BigMulSmall(d, q0 - 1), x) <= 0 THEN q0 - 1
    ELSE q0 - 2
\* <<x \div d, x % d>>, given the digit q.
BigDigitOf(x, d, q) == <<q, BigSub(x, BigMulSmall(d, q))>>
BigDigit(x, d) == BigDigitOf(x, d, BigQuot(x, d, BigGuess(x, d)))

\* Long division of the limbs j and above of a by d, the top limbs first:
\* <<quotient, remainder>>.  The top Len(d) - 1 limbs of a are below d;
\* every further limb is put under the remainder so far (up[2]) and gives
\* one digit.
RECURSIVE BigDivModFrom(_, _, _)
BigDivPut(q, h) == <<<<h[1]>> \o q, h[2]>>
BigDivStep(limb, d, up) ==
    IF up[2] = <<>> /\ limb = 0 THEN <<<<0>> \o up[1], <<>>>>
    ELSE BigDivPut(up[1], BigDigit(<<limb>> \o up[2], d))
BigDivModFrom(a, d, j) ==
    IF j > Len(a) - Len(d) + 1 THEN <<<<>>, SubSeq(a, j, Len(a))>>
    ELSE BigDivStep(a[j], d, BigDivModFrom(a, d, j + 1))

\* The whole number nearest to a / d (d > 0), the even one of two equally
\* near: the quotient q is raised by one when twice the remainder is above
\* d (c > 0), or equal to d with q odd.  Both a and d are scaled by s to
\* give d the top limb the division needs.
RoundUp(q, c) ==
    IF c > 0 \/ (c = 0 /\ Limb(q, 1) % 2 = 1) THEN BigAdd(q, <<1>>) ELSE q
RoundDivOf(d, h) == RoundUp(BigTrim(h[1]), BigCmp(BigAdd(h[2], h[2]), d))
RoundDivBy(a, d, s) ==
    RoundDivOf(BigMulSmall(d, s),
               BigDivModFrom(BigMulSmall(a, s), BigMulSmall(d, s), 1))
RoundDiv(a, d) == RoundDivBy(a, d, Pow2(15 - BitsOf(d[Len(d)])))

\* ------------------------------------------------------------------------
\* Python's float: an IEEE 754 double, sign * mant * 2^exp with mant an odd
\* natural number of at most 53 binary digits.  Zero has sign 0 (the sign of
\* a zero changes no result here), and no value of the program comes near
\* the largest or the smallest double.

Zero == [sign |-> 0, mant |-> <<>>, exp |-> 0]

\* The number of factors of two of a limb that is not 0.
TrailingZeros(n) ==
    CHOOSE z \in 0..14 : n % Pow2(z) = 0 /\ n % Pow2(z + 1) # 0

\* sign * m * 2^e with the factors of two of m moved to the exponent.
RECURSIVE Canon(_, _, _)
Canon(s, m, e) ==
    IF m = <<>> THEN Zero
    ELSE IF m[1] = 0 THEN Canon(s, Tail(m), e + 15)
    ELSE [sign |-> s,
          mant |-> Shr(m, TrailingZeros(m[1])),
          exp |-> e + TrailingZeros(m[1])]

\* L with a / d in [2^L, 2^(L+1)), given the difference k of the numbers of
\* binary digits of a and d: k or k - 1.
Floor2(a, d, k) ==
    IF BigCmp(Shl(a, Largest(-k, 0)), Shl(d, Largest(k, 0))) >= 0 THEN k
    ELSE k - 1
\* s * (a / d) * 2^e with a / d scaled by 2^sh to 53 binary digits and
\* divided.
NearestAt(s, a, d, e, sh) ==
    Canon(s, RoundDiv(Shl(a, Largest(sh, 0)), Shl(d, Largest(-sh, 0))),
          e - sh)
\* The double nearest to s * (a / d) * 2^e, the one with an even 53-digit
\* mantissa of two equally near (round-half-even).
Nearest(s, a, d, e) ==
    IF a = <<>> THEN Zero
    ELSE NearestAt(s, a, d, e, 52 - Floor2(a, d, BitLen(a) - BitLen(d)))

Sign(n) == IF n < 0 THEN -1 ELSE IF n > 0 THEN 1 ELSE 0

\* float(n) of an int.
FloatOf(n) == Nearest(Sign(n), BigOf(Abs(n)), <<1>>, 0)

\* A decimal literal read as a float: the double nearest to the rational.
Float(x) == Nearest(Sign(x[1]), BigOf(Abs(x[1])), BigOf(x[2]), 0)

FNeg(x) == [x EXCEPT !.sign = -x.sign]

\* sx * a * 2^e + sy * b * 2^e
FSum(sx, a, sy, b, e) ==
    Nearest(IF sx = sy \/ BigCmp(a, b) >= 0 THEN sx ELSE sy,
            IF sx = sy THEN BigAdd(a, b)
            ELSE IF BigCmp(a, b) >= 0 THEN BigSub(a, b)
            ELSE BigSub(b, a),
            <<1>>, e)
\* x + y, neither zero, with e the lower of their exponents.
FAddAt(x, y, e) ==
    FSum(x.sign, Shl(x.mant, x.exp - e), y.sign, Shl(y.mant, y.exp - e), e)
\* x + y
FAdd(x, y) ==
    IF x.sign = 0 THEN y
    ELSE IF y.sign = 0 THEN x
    ELSE FAddAt(x, y, Smallest(x.exp, y.exp))

\* x - y
FSub(x, y) == FAdd(x, FNeg(y))

\* x * y
FMul(x, y) ==
    IF x.sign = 0 \/ y.sign = 0 THEN Zero
    ELSE Nearest(x.sign * y.sign, BigMul(x.mant, y.mant), <<1>>,
                 x.exp + y.exp)

\* x / y, y not zero: the caller raises ZeroDivisionError before dividing.
FDiv(x, y) ==
    IF y.sign # 0 /\ x.sign = 0 THEN Zero
    ELSE Nearest(x.sign * y.sign, x.mant, y.mant, x.exp - y.exp)

\* n * 2^e to the nearest whole number (half to even).
Units(n, e) == IF e >= 0 THEN Shl(n, e) ELSE RoundDiv(n, Shl(<<1>>, -e))
\* Python 3's round(x, 3): the multiple of 0.001 nearest to the double's
\* own value, the even one of two equally near, read back as a float.
Round3(x) ==
    IF x.sign = 0 THEN Zero
    ELSE Nearest(x.sign, Units(BigMul(x.mant, BigOf(1000)), x.exp),
                 BigOf(1000), 0)

\* ------------------------------------------------------------------------
\* Module-level data and small helpers

\* The literal list of lines 105 and 136.
special_cases == <<O, S, F, Cl, Br, I>>

Range(s) == {s[k] : k \in 1..Len(s)}

\* A dict is a function; d[k] = v adds or replaces one key.
EmptyDict == [k \in {} |-> <<>>]
Put(d, k, v) == [x \in DOMAIN d \cup {k} |-> IF x = k THEN v ELSE d[x]]

\* A Composition is the sequence of <<symbol, amount>> pairs of a formula,
\* in the order the formula gives them; composition[sym] is the amount of
\* sym, 0 when it is absent.
RECURSIVE Amount(_, _)
Amount(composition, sym) ==
    IF composition = <<>> THEN 0
    ELSE IF Head(composition)[1] = sym THEN Head(composition)[2]
    ELSE Amount(Tail(composition), sym)

\* Three rows in the format of experimental_oxide_formation_energies.yaml:
\* delta_H in kcal/mol, S_cmpd and S_elt in cal/mol.degree.
MoO2 == [compound |-> <<<<Mo, 1>>, <<O, 2>>>>, delta_H |-> Centi(-13659),
         S_cmpd |-> Centi(1040), S_elt |-> Centi(685)]
MoO3 == [compound |-> <<<<Mo, 1>>, <<O, 3>>>>, delta_H |-> Centi(-18091),
         S_cmpd |-> Centi(1860), S_elt |-> Centi(685)]
N2O5 == [compound |-> <<<<N, 2>>, <<O, 5>>>>, delta_H |-> Centi(-1463),
         S_cmpd |-> Centi(4105), S_elt |-> Centi(2290)]

\* The tables the module may have loaded, each in its iteration order.
Tables == {<<MoO2, MoO3, N2O5>>, <<MoO3, MoO2>>}

\* ------------------------------------------------------------------------
\* get_experimental_formation_energies, one loop iteration (lines 50-60)

oxygen_entropy == Centi(3848)

\* Line 51: the first element of the composition that is not oxygen.
ElementOf(composition) ==
    SelectSeq(composition, LAMBDA e : e[1] # O)[1][1]

\* A variant of DeltaS that does not scale the element's entropy by its
\* amount.
DeltaSUnscaled(row) ==
    FDiv(
        FMul(
            FSub(Float(row.S_cmpd),
                 FAdd(Float(row.S_elt),
                      FMul(Float(Centi(3848)),
                           FloatOf(Amount(row.compound, O))))),
            FloatOf(298)),
        FloatOf(1000))

\* Lines 54-58.
DeltaS(row) ==
    LET composition == row.compound
        element == ElementOf(composition)
    IN  FDiv(
            FMul(
                FSub(Float(row.S_cmpd),
                     FAdd(FMul(Float(row.S_elt),
                               FloatOf(Amount(composition, element))),
                          FMul(Float(oxygen_entropy),
                               FloatOf(Amount(composition, O))))),
                FloatOf(298)),
            FloatOf(1000))

\* Line 60: kcal/mole to eV/formula unit.
FormationEnergy(row) ==
    FDiv(FSub(Float(row.delta_H), DeltaS(row)),
         Float(Norm(2206035, 100000)))


\* ------------------------------------------------------------------------
\* The directory tree and the caller's inputs

\* Paths are absolute: the sequence of names from the root.  The caller
\* starts in Home.
Home == <<<<"w">>>>
DotDot == <<".", ".">>
Dot == <<".">>

\* A variant of Resolve that follows only the first name of the path, as
\* if '../../' were '../'.
ResolveOneStep(base, rel) ==
    IF rel = <<>> THEN base
    ELSE IF Head(rel) = DotDot
         THEN (IF base = <<>> THEN <<>> ELSE SubSeq(base, 1, Len(base) - 1))
         ELSE IF Head(rel) = Dot THEN base
         ELSE Append(base, Head(rel))

\* os.chdir / os.path resolution of a relative path of non-empty names,
\* one name at a time: '..' drops the last name (the root is its own
\* parent) and '.' stays.
RECURSIVE Resolve(_, _)
Resolve(base, rel) ==
    IF rel = <<>> THEN base
    ELSE IF Head(rel) = DotDot
         THEN Resolve(IF base = <<>> THEN <<>>
                      ELSE SubSeq(base, 1, Len(base) - 1), Tail(rel))
         ELSE IF Head(rel) = Dot THEN Resolve(base, Tail(rel))
         ELSE Resolve(Append(base, Head(rel)), Tail(rel))

\* A variant of IsDir for a caller that does not test at all.
IsDirNever(ds, path) == FALSE

\* os.path.isdir
IsDir(ds, path) == path \in ds

\* element.split('_')[0]: the text before the first '_'.
RECURSIVE Split0(_)
Split0(element) ==
    IF element = <<>> \/ Head(element) = "_" THEN <<>>
    ELSE <<Head(element)>> \o Split0(Tail(element))

\* A variant of IsSpecial whose list lacks 'S'.
IsSpecialWithoutS(elt) == elt \in {O, F, Cl, Br, I}

\* Lines 105 and 139-141: membership in the literal list.
IsSpecial(elt) == elt \in Range(special_cases)

\* The keys of reference_mpids.yaml: every reference element has an
\* 'element' structure, and those with a reference oxide an 'oxide' one.
REFERENCE_MPIDS ==
    [e \in {Mo, N, O, S} |->
        IF e \in {Mo, N} THEN {"element", "oxide"} ELSE {"element"}]

\* Potcar types the caller chooses from, and the lists it may pass.
PotcarUniverse == {Mo_pv, O, O_s, S, NoSymbol}
PotcarLists == UNION {[1..n -> PotcarUniverse] : n \in 0..MaxLen}

\* What the working directory holds before the first call: directories
\* and regular files, as paths below Home.
Layouts ==
    { [dirs |-> {}, files |-> {}],
      [dirs |-> {<<O>>, <<Mo>>, <<Mo, oxide>>}, files |-> {}],
      [dirs |-> {<<O>>, <<S>>, <<Mo>>, <<Mo, oxide>>, <<N>>, <<N, oxide>>},
       files |-> {}],
      [dirs |-> {<<O>>, <<N>>}, files |-> {<<Mo>>}] }

VARIABLES
    table,            \* EXPERIMENTAL_OXIDE_FORMATION_ENERGIES (lines 30-32)
    dirs,             \* the directories that exist
    files,            \* the regular files that exist
    cwd,              \* the process's current working directory
    potcar_types,     \* the caller's list, passed to every relax_references
                      \* and put away when the caller turns to
                      \* get_corrections
    submit,           \* relax_references: the submit argument
    pc,               \* where the running procedure stands
    err,              \* the exception that left the procedure, if any
    i,                \* relax_references: index of the loop of line 93
    oxygen_potcar,    \* relax_references: lines 85-91
    log,              \* what the running call did so far, in order
    calls             \* history: the running call, what it started from,
                      \* and whether relax_references has returned before

NoError == [type |-> "", line |-> 0]
Raised(type, line) == [type |-> type, line |-> line]

\* One thing a call did: a directory made, a file written, a relaxation
\* set up (and submitted when sub), in directory dir.
Event(op, dir, types, sub, ref) ==
    [op |-> op, dir |-> dir, types |-> types, sub |-> sub, ref |-> ref]

\* A variant of FirstOxygen without the break: the last entry whose symbol
\* is O.
LastOxygen(types) ==
    IF \E k \in 1..Len(types) : Split0(types[k]) = O
    THEN CHOOSE k \in 1..Len(types) :
            /\ Split0(types[k]) = O
            /\ \A j \in (k + 1)..Len(types) : Split0(types[j]) # O
    ELSE 0

\* Lines 85-91.  The index of the first entry whose symbol is O, 0 if none
\* (the loop's else branch).
FirstOxygen(types) ==
    IF \E k \in 1..Len(types) : Split0(types[k]) = O
    THEN CHOOSE k \in 1..Len(types) :
            /\ Split0(types[k]) = O
            /\ \A j \in 1..(k - 1) : Split0(types[j]) # O
    ELSE 0


VARIABLES
    gi,                   \* get_experimental_formation_energies: loop index
    formation_energies,   \* its dict (line 48), then line 134's copy
    mu0,                  \* get_corrections: line 135
    corrections,          \* get_corrections: line 135
    elts,                 \* line 138, the entries not yet iterated
    special_elts,         \* line 140, the entries not yet iterated
    elt,                  \* the loop variable of line 164
    parsed                \* history: what each Vasprun('vasprun.xml') gave

fsVars == <<dirs, files, cwd>>
rrVars == <<potcar_types, submit, i, oxygen_potcar>>
gcVars == <<gi, formation_energies, mu0, corrections, elts, special_elts,
            elt, parsed>>
vars == <<table, fsVars, rrVars, pc, err, log, calls, gcVars>>

Init ==
    /\ table \in Tables
    /\ \E layout \in Layouts :
          /\ dirs = {<<>>, Home} \cup {Home \o p : p \in layout.dirs}
          /\ files = {Home \o p : p \in layout.files}
    /\ cwd = Home
    /\ potcar_types \in PotcarLists
    /\ submit = FALSE
    /\ pc = "idle"
    /\ err = NoError
    /\ i = 0
    /\ oxygen_potcar = <<>>
    /\ log = <<>>
    /\ calls = [proc |-> "", cwd |-> cwd, dirs |-> dirs,
                types |-> potcar_types, table |-> table, done |-> FALSE,
                again |-> FALSE]
    /\ gi = 0
    /\ formation_energies = EmptyDict
    /\ mu0 = EmptyDict
    /\ corrections = EmptyDict
    /\ elts = {}
    /\ special_elts = {}
    /\ elt = <<>>
    /\ parsed = EmptyDict

\* ------------------------------------------------------------------------
\* relax_references(potcar_types, incar_dict, submit)

\* Lines 85-90: the potential of the first oxygen entry, 'O_s' if none.
OxygenPotcar(types) ==
    IF FirstOxygen(types) = 0 THEN O_s ELSE types[FirstOxygen(types)]

\* A variant of WithOxygen that forgets the append.
WithoutDefault(types) == types

\* Lines 89-91: the else branch appends 'O_s' to the caller's list.
WithOxygen(types) ==
    IF FirstOxygen(types) = 0 THEN Append(types, O_s) ELSE types

\* The call and lines 85-91: the for/else that finds the oxygen potential.
RR_Call ==
    /\ pc = "idle"
    /\ submit' \in BOOLEAN
    /\ oxygen_potcar' = OxygenPotcar(potcar_types)
    /\ potcar_types' = WithOxygen(potcar_types)
    /\ i' = 1
    /\ pc' = "rr_elt"
    /\ log' = <<>>
    /\ calls' = [calls EXCEPT !.proc = "relax_references", !.cwd = cwd,
                              !.dirs = dirs, !.types = potcar_types,
                              !.again = calls.done]
    /\ UNCHANGED <<table, fsVars, err, gcVars>>

\* What lines 96-102 (where = "element", in elt) and lines 106-112 (where =
\* "oxide", in 'oxide') share: make the directory unless it is one, enter
\* it, fetch the reference structure, write POSCAR, call relax, write
\* POTCAR.  The result is the tree, the working directory and the log
\* after it, and the exception of the first step that fails.
SetUp(name, symbol, where, types, mkdirLine, mpidLine) ==
    LET target == Resolve(cwd, <<name>>)
        make == ~IsDir(dirs, target)
        made == IF make THEN dirs \cup {target} ELSE dirs
        madeLog == IF make THEN Append(log, Event("mkdir", target, <<>>,
                                                  FALSE, ""))
                   ELSE log
    IN  IF name = <<>> \/ (make /\ target \in dirs \cup files)
        THEN \* os.path.isdir('') is false and os.mkdir('') raises, as
             \* os.mkdir does on a name that exists
             [err |-> Raised("OSError", mkdirLine), dirs |-> dirs,
              files |-> files, cwd |-> cwd, log |-> log]
        ELSE IF \/ symbol \notin DOMAIN REFERENCE_MPIDS
                \/ where \notin REFERENCE_MPIDS[symbol]
        THEN [err |-> Raised("KeyError", mpidLine),
              dirs |-> made, files |-> files,
              cwd |-> target, log |-> madeLog]
        ELSE [err |-> NoError,
              dirs |-> made,
              files |-> files \cup {Append(target, POSCAR),
                                    Append(target, POTCAR)},
              cwd |-> target,
              log |-> madeLog \o
                    << Event("POSCAR", target, <<>>, FALSE, where),
                       Event("relax", target, <<>>, submit, ""),
                       Event("POTCAR", target, types, FALSE, "") >>]

\* Lines 93-102: the pure element of entry i.
RR_Element ==
    /\ pc = "rr_elt"
    /\ i <= Len(potcar_types)
    /\ LET element == potcar_types[i]
           r == SetUp(Split0(element), Split0(element), "element",
                      <<element>>, 97, 99)
       IN  /\ dirs' = r.dirs
           /\ files' = r.files
           /\ cwd' = r.cwd
           /\ log' = r.log
           /\ err' = r.err
           /\ pc' = IF r.err = NoError THEN "rr_oxide" ELSE "raised"
    /\ UNCHANGED <<table, rrVars, calls, gcVars>>

\* Lines 104-115: the reference oxide of entry i, unless its symbol is a
\* special case, and the way back up.
RR_Oxide ==
    /\ pc = "rr_oxide"
    /\ LET element == potcar_types[i]
           r == SetUp(oxide, Split0(element), "oxide",
                      <<element, oxygen_potcar>>, 107, 109)
       IN  IF IsSpecial(Split0(element))
           THEN /\ cwd' = Resolve(cwd, <<DotDot>>)
                /\ i' = i + 1
                /\ pc' = "rr_elt"
                /\ UNCHANGED <<dirs, files, log, err>>
           ELSE /\ dirs' = r.dirs
                /\ files' = r.files
                /\ log' = r.log
                /\ err' = r.err
                /\ IF r.err = NoError
                   THEN /\ cwd' = Resolve(Resolve(r.cwd, <<DotDot>>),
                                          <<DotDot>>)
                        /\ i' = i + 1
                        /\ pc' = "rr_elt"
                   ELSE /\ cwd' = r.cwd
                        /\ pc' = "raised"
                        /\ UNCHANGED i
    /\ UNCHANGED <<table, potcar_types, submit, oxygen_potcar, calls,
                   gcVars>>

\* The loop of line 93 is exhausted: the call returns, and its arguments
\* and locals are gone (the caller keeps its list).
RR_Return ==
    /\ pc = "rr_elt"
    /\ i > Len(potcar_types)
    /\ pc' = "idle"
    /\ submit' = FALSE
    /\ i' = 0
    /\ oxygen_potcar' = <<>>
    /\ calls' = [calls EXCEPT !.done = TRUE]
    /\ UNCHANGED <<table, fsVars, potcar_types, err, log, gcVars>>

\* ------------------------------------------------------------------------
\* What the external calculations left behind

\* gas_corrections.yaml: an energy in eV per atom for the gaseous elements.
GAS_CORRECTIONS ==
    [e \in {O, S, N, F, Cl, Br, I} |->
        CASE e = O -> Milli(-316)
          [] e = S -> Milli(-95)
          [] e = N -> Milli(-299)
          [] OTHER -> Milli(-250)]

\* Vasprun('vasprun.xml') either raises (exc says what) or gives the final
\* energy in eV, the final structure's composition and what the
\* composition's get_integer_formula_and_factor() returns.
Finished(energy, composition, formula, factor) ==
    [exc |-> "", final_energy |-> energy, composition |-> composition,
     formula_and_factor |-> <<formula, factor>>]
Unfinished(exc) ==
    [exc |-> exc, final_energy |-> <<0, 1>>, composition |-> <<>>,
     formula_and_factor |-> <<<<>>, 0>>]

\* What an unfinished run's vasprun.xml makes the parser raise.
ParserErrors == {"ParseError", "UnboundLocalError"}

\* The finished runs a directory may hold, by element: the pure element's
\* cell in the element directory, the reference oxide's in 'oxide'; and,
\* for Mo, the run of a cell of oxygen alone left in either.
ElementRuns(e) ==
    CASE e = O -> {Finished(Centi(-986), <<<<O, 2>>>>, O2, 1),
                   Finished(Centi(-1965), <<<<O, 4>>>>, O2, 2)}
      [] e = S -> {Finished(Centi(-1652), <<<<S, 4>>>>, S, 4)}
      [] e = Mo -> {Finished(Centi(-2189), <<<<Mo, 2>>>>, Mo, 2),
                    Finished(Centi(-986), <<<<O, 2>>>>, O2, 1)}
      [] e = N -> {Finished(Centi(-1663), <<<<N, 2>>>>, <<"N", "2">>, 1)}
      [] OTHER -> {}
OxideRuns(e) ==
    CASE e = Mo -> {Finished(Centi(-2610), <<<<Mo, 1>>, <<O, 2>>>>,
                             <<"M", "o", "O", "2">>, 1),
                    Finished(Centi(-5225), <<<<Mo, 2>>, <<O, 4>>>>,
                             <<"M", "o", "O", "2">>, 2),
                    Finished(Centi(-986), <<<<O, 2>>>>, O2, 1)}
      [] e = N -> {Finished(Centi(-4127), <<<<N, 2>>, <<O, 5>>>>,
                            <<"N", "2", "O", "5">>, 1)}
      [] OTHER -> {}
Vaspruns(e, where) ==
    (IF where = "oxide" THEN OxideRuns(e) ELSE ElementRuns(e))
        \cup {Unfinished(x) : x \in ParserErrors}

\* A value of the corrections dict: a number, or a message.
Number(v) == [text |-> "", value |-> v]
Message(t) == [text |-> t, value |-> Zero]

\* ------------------------------------------------------------------------
\* get_corrections(write_yaml)

\* The call; line 134 enters get_experimental_formation_energies
\* (lines 46-48).
GC_Call ==
    /\ pc = "idle"
    /\ pc' = "gef"
    /\ gi' = 1
    /\ formation_energies' = EmptyDict
    /\ log' = <<>>
    /\ potcar_types' = <<>>
    /\ calls' = [calls EXCEPT !.proc = "get_corrections", !.cwd = cwd,
                              !.dirs = dirs, !.types = <<>>,
                              !.table = table, !.again = FALSE]
    /\ UNCHANGED <<table, fsVars, submit, i, oxygen_potcar, err, mu0,
                   corrections, elts, special_elts, elt, parsed>>

\* Lines 49-60: one row of the table.
GEF_Step ==
    /\ pc = "gef"
    /\ gi <= Len(table)
    /\ LET row == table[gi]
       IN  formation_energies' =
               Put(formation_energies, ElementOf(row.compound),
                   FormationEnergy(row))
    /\ gi' = gi + 1
    /\ UNCHANGED <<table, fsVars, rrVars, pc, err, log, calls, mu0,
                   corrections, elts, special_elts, elt, parsed>>

\* os.listdir(os.getcwd()): the names in the working directory.
ListDir(at) ==
    {p[Len(p)] : p \in {q \in dirs \cup files :
                          /\ Len(q) = Len(at) + 1
                          /\ SubSeq(q, 1, Len(at)) = at}}

\* Line 62 returns the dict to line 134; lines 135-141 list the
\* directories of the working directory.
GEF_Return ==
    /\ pc = "gef"
    /\ gi > Len(table)
    /\ mu0' = EmptyDict
    /\ corrections' = EmptyDict
    /\ elts' = {e \in ListDir(cwd) :
                   IsDir(dirs, Resolve(cwd, <<e>>)) /\ ~IsSpecial(e)}
    /\ special_elts' = {e \in ListDir(cwd) :
                           IsDir(dirs, Resolve(cwd, <<e>>)) /\ IsSpecial(e)}
    /\ parsed' = EmptyDict
    /\ pc' = "gc_special"
    /\ UNCHANGED <<table, fsVars, rrVars, err, log, calls, gi,
                   formation_energies, elt>>

\* "'2' in formula"
Contains(text, ch) == \E k \in 1..Len(text) : text[k] = ch

\* Lines 148-156: mu0 of a special element.
SpecialMu0(e, vasprun) ==
    LET formula_and_factor == vasprun.formula_and_factor
        n == formula_and_factor[2]
        n_formula_units == IF Contains(formula_and_factor[1], "2")
                           THEN n * 2 ELSE n
    IN  Round3(FAdd(FDiv(Float(vasprun.final_energy),
                         FloatOf(n_formula_units)),
                    Float(GAS_CORRECTIONS[e])))

\* Lines 144-157: one special element, in the order os.listdir gave.
GC_Special ==
    /\ pc = "gc_special"
    /\ \E e \in special_elts :
       \E vasprun \in Vaspruns(e, "element") :
          LET at == Resolve(cwd, <<e>>)
          IN  /\ parsed' = Put(parsed, at, vasprun)
              /\ special_elts' = special_elts \ {e}
              /\ IF vasprun.exc # ""
                 THEN /\ err' = Raised(vasprun.exc, 146)
                      /\ pc' = "raised"
                      /\ cwd' = at
                      /\ UNCHANGED mu0
                 ELSE /\ mu0' = Put(mu0, e, SpecialMu0(e, vasprun))
                      /\ cwd' = Resolve(at, <<DotDot>>)
                      /\ UNCHANGED <<err, pc>>
    /\ UNCHANGED <<table, dirs, files, rrVars, log, calls, gi,
                   formation_energies, corrections, elts, elt>>

\* Line 162: the loop of line 144 is exhausted.
GC_OxygenCorrection ==
    /\ pc = "gc_special"
    /\ special_elts = {}
    /\ IF O \in DOMAIN mu0
       THEN /\ mu0' = Put(mu0, O, FAdd(mu0[O], Float(Milli(708))))
            /\ pc' = "gc_elt"
            /\ UNCHANGED err
       ELSE /\ err' = Raised("KeyError", 162)
            /\ pc' = "raised"
            /\ UNCHANGED mu0
    /\ UNCHANGED <<table, fsVars, rrVars, log, calls, gi,
                   formation_energies, corrections, elts, special_elts,
                   elt, parsed>>

\* Lines 175-177: nitrogen needs an entropic gas phase correction too.
GasCorrected(e, m) ==
    IF e = N THEN FSub(m, Float(GAS_CORRECTIONS[N])) ELSE m

\* Lines 169-177: mu0 of an element from its finished run.
ElementMu0(e, vasprun) ==
    GasCorrected(e, Round3(FDiv(Float(vasprun.final_energy),
                                FloatOf(Amount(vasprun.composition, e)))))

\* Lines 164-180: the next element, in the order os.listdir gave: its
\* experimental energy, its directory, its own run.
GC_Element ==
    /\ pc = "gc_elt"
    /\ \E e \in elts :
       \E vasprun \in Vaspruns(e, "element") :
          LET at == Resolve(cwd, <<e>>)
          IN  IF e \notin DOMAIN formation_energies
              THEN /\ err' = Raised("KeyError", 165)
                   /\ pc' = "raised"
                   /\ UNCHANGED <<cwd, mu0, corrections, elts, elt, parsed>>
              ELSE /\ cwd' = at
                   /\ parsed' = Put(parsed, at, vasprun)
                   /\ elts' = elts \ {e}
                   /\ elt' = e
                   /\ pc' = "gc_oxide"
                   /\ IF vasprun.exc = ""
                         /\ Amount(vasprun.composition, e) # 0
                      THEN /\ mu0' = Put(mu0, e, ElementMu0(e, vasprun))
                           /\ UNCHANGED corrections
                      ELSE \* except Exception
                           /\ corrections' =
                                 Put(corrections, e,
                                     Message("Element not finished"))
                           /\ UNCHANGED mu0
                   /\ UNCHANGED err
    /\ UNCHANGED <<table, dirs, files, rrVars, log, calls, gi,
                   formation_energies, special_elts>>

\* Lines 186-192.
EFdft(e, vasprun, mu) ==
    LET composition == vasprun.composition
        n_formula_units == vasprun.formula_and_factor[2]
    IN  FDiv(
            FSub(FSub(Float(vasprun.final_energy),
                      FMul(mu[e], FloatOf(Amount(composition, e)))),
                 FMul(mu[O], FloatOf(Amount(composition, O)))),
            FloatOf(n_formula_units))

\* Lines 194-196.
Correction(e, vasprun, mu, EF_exp) ==
    LET composition == vasprun.composition
        n_formula_units == vasprun.formula_and_factor[2]
    IN  FDiv(
            Round3(FDiv(FSub(EFdft(e, vasprun, mu), EF_exp),
                        FloatOf(Amount(composition, e)))),
            FMul(FloatOf(Amount(composition, e)), FloatOf(n_formula_units)))

\* Lines 198-203: the handler of UnboundLocalError.
OxideNotFinished(c, e) ==
    IF e \in DOMAIN c
    THEN Put(c, e, Message(c[e].text \o "and oxide not finished"))
    ELSE Put(c, e, Message("Oxide not finished"))

\* Lines 182-205: the oxide of the element of line 164, and the way back.
GC_Oxide ==
    /\ pc = "gc_oxide"
    /\ \E vasprun \in Vaspruns(elt, "oxide") :
          LET at == Resolve(cwd, <<oxide>>)
              back == Resolve(at, <<DotDot, DotDot>>)
              EF_exp == formation_energies[elt]
          IN  IF ~IsDir(dirs, at)
              THEN /\ err' = Raised("OSError", 182)
                   /\ pc' = "raised"
                   /\ UNCHANGED <<cwd, corrections, parsed>>
              ELSE IF vasprun.exc = "UnboundLocalError"
              THEN /\ corrections' = OxideNotFinished(corrections, elt)
                   /\ parsed' = Put(parsed, at, vasprun)
                   /\ cwd' = back
                   /\ pc' = "gc_elt"
                   /\ UNCHANGED err
              ELSE IF vasprun.exc # ""
              THEN /\ err' = Raised(vasprun.exc, 184)
                   /\ pc' = "raised"
                   /\ parsed' = Put(parsed, at, vasprun)
                   /\ cwd' = at
                   /\ UNCHANGED corrections
              ELSE IF elt \notin DOMAIN mu0
              THEN /\ err' = Raised("KeyError", 190)
                   /\ pc' = "raised"
                   /\ parsed' = Put(parsed, at, vasprun)
                   /\ cwd' = at
                   /\ UNCHANGED corrections
              ELSE IF Amount(vasprun.composition, elt) = 0
              THEN \* the cell holds none of the element: float division
                   \* by zero
                   /\ err' = Raised("ZeroDivisionError", 195)
                   /\ pc' = "raised"
                   /\ parsed' = Put(parsed, at, vasprun)
                   /\ cwd' = at
                   /\ UNCHANGED corrections
              ELSE /\ corrections' =
                         Put(corrections, elt,
                             Number(Correction(elt, vasprun, mu0, EF_exp)))
                   /\ parsed' = Put(parsed, at, vasprun)
                   /\ cwd' = back
                   /\ pc' = "gc_elt"
                   /\ UNCHANGED err
    /\ UNCHANGED <<table, dirs, files, rrVars, log, calls, gi,
                   formation_energies, mu0, elts, special_elts, elt>>

ion_corrections_yaml ==
    <<"i", "o", "n", "_", "c", "o", "r", "r", "e", "c", "t", "i", "o", "n",
      "s", ".", "y", "a", "m", "l">>
end_members_yaml ==
    <<"e", "n", "d", "_", "m", "e", "m", "b", "e", "r", "s", ".", "y", "a",
      "m", "l">>

\* Lines 207-213: the loop of line 164 is exhausted; the two files are
\* written when the caller asked for them, and the call returns.
GC_Return ==
    /\ pc = "gc_elt"
    /\ elts = {}
    /\ \E write_yaml \in BOOLEAN :
          files' = IF write_yaml
                   THEN files \cup {Append(cwd, ion_corrections_yaml),
                                    Append(cwd, end_members_yaml)}
                   ELSE files
    /\ pc' = "gc_done"
    /\ UNCHANGED <<table, dirs, cwd, rrVars, err, log, calls,
                   gcVars>>

Next == RR_Call \/ RR_Element \/ RR_Oxide \/ RR_Return
        \/ GC_Call \/ GEF_Step \/ GEF_Return \/ GC_Special
        \/ GC_OxygenCorrection \/ GC_Element \/ GC_Oxide \/ GC_Return

Spec == Init /\ [][Next]_vars

\* ------------------------------------------------------------------------
\* Properties

InRelaxReferences == calls.proc = "relax_references"
InGetCorrections == calls.proc = "get_corrections"
\* A path is the 'oxide' subdirectory of an element directory of the
\* call's working directory.
IsOxideDir(path) ==
    Len(path) = Len(calls.cwd) + 2 /\ path[Len(path)] = oxide

\* C1: relax_references submits each job only after preparing it: when a
\* relaxation is submitted in a directory, the POSCAR of that directory
\* and its POTCAR of the requested types (one type for an element
\* directory, the element's and the oxygen potential for an oxide
\* directory) were written earlier in the same call; and with submit false
\* nothing is submitted.
C1_SubmitAfterInputs ==
    (InRelaxReferences /\ pc \in {"rr_elt", "rr_oxide"}) =>
        \A j \in 1..Len(log) :
            log[j].op = "relax" =>
                /\ log[j].sub = submit
                /\ log[j].sub =>
                      /\ \E k \in 1..(j - 1) :
                            log[k].op = "POSCAR" /\ log[k].dir = log[j].dir
                      /\ \E k \in 1..(j - 1) :
                            /\ log[k].op = "POTCAR"
                            /\ log[k].dir = log[j].dir
                            /\ log[k].types \in
                                  IF IsOxideDir(log[j].dir)
                                  THEN {<<t, oxygen_potcar>> :
                                           t \in Range(potcar_types)}
                                  ELSE {<<t>> : t \in Range(potcar_types)}

\* The run get_corrections read in a directory was a finished one.
FinishedIn(path) == path \in DOMAIN parsed /\ parsed[path].exc = ""
UnfinishedIn(path) == path \in DOMAIN parsed /\ parsed[path].exc # ""

\* C2: get_corrections detects unfinished jobs instead of aborting: no
\* exception leaves the two try blocks of the element loop (lines 168-203),
\* and when the call returns every non-special element directory has an
\* entry: a number when both of its runs are finished, a message naming
\* the unfinished run(s) otherwise.
C2_UnfinishedDetected ==
    InGetCorrections =>
        /\ pc = "raised" => err.line \notin (168..180) \cup (183..203)
        /\ pc = "gc_done" =>
              \A e \in ListDir(calls.cwd) :
                 LET at == Append(calls.cwd, e)
                     ox == Append(at, oxide)
                 IN  (at \in dirs /\ e \notin {O, S, F, Cl, Br, I}) =>
                        /\ e \in DOMAIN corrections
                        /\ (FinishedIn(at) /\ FinishedIn(ox))
                              => corrections[e].text = ""
                        /\ (UnfinishedIn(at) /\ FinishedIn(ox))
                              => corrections[e].text = "Element not finished"
                        /\ (FinishedIn(at) /\ UnfinishedIn(ox))
                              => corrections[e].text = "Oxide not finished"
                        /\ (UnfinishedIn(at) /\ UnfinishedIn(ox))
                              => corrections[e].text # ""

\* C3: the dict get_corrections returns has a key for every element
\* directory of the working directory, the special-case elements included.
C3_EveryDirectoryHasEntry ==
    (InGetCorrections /\ pc = "gc_done") =>
        \A e \in ListDir(calls.cwd) :
            Append(calls.cwd, e) \in dirs => e \in DOMAIN corrections

\* C6: when both runs of an element are finished its correction is
\* (EF_dft - EF_exp) divided by the number of atoms of the element in one
\* oxide formula unit, rounded to 3 decimals, with EF_dft =
\* (E_oxide - mu0[elt]*n_elt - mu0['O']*n_O) / n_formula_units.
C6_PerAtomCorrection ==
    (InGetCorrections /\ pc \in {"gc_elt", "gc_done"}) =>
        \A e \in DOMAIN corrections :
            corrections[e].text = "" =>
                LET run == parsed[calls.cwd \o <<e, oxide>>]
                    n_elt == Amount(run.composition, e)
                    n_O == Amount(run.composition, O)
                    units == run.formula_and_factor[2]
                    EF_dft == FDiv(
                        FSub(FSub(Float(run.final_energy),
                                  FMul(mu0[e], FloatOf(n_elt))),
                             FMul(mu0[O], FloatOf(n_O))),
                        FloatOf(units))
                    EF_exp == formation_energies[e]
                IN  corrections[e].value =
                        Round3(FDiv(FSub(EF_dft, EF_exp),
                                    FDiv(FloatOf(n_elt), FloatOf(units))))

\* The potcar types an oxide directory's POTCAR was written with, in the
\* order the POTCARs were written.
OxidePotcars ==
    SelectSeq(log, LAMBDA ev : ev.op = "POTCAR" /\ IsOxideDir(ev.dir))
HasOxygen(types) == \E k \in 1..Len(types) : Split0(types[k]) = O

\* C4: if no entry of the list relax_references is called with has symbol
\* O, 'O_s' is appended once, it is the oxygen potential of every oxide
\* POTCAR, and an oxygen reference calculation has been set up when the
\* call returns; otherwise the list is left as it is and the first entry
\* with symbol O is the oxygen potential of every oxide POTCAR.
C4_OxygenPotential ==
    InRelaxReferences =>
        LET given == calls.types
        IN  IF ~HasOxygen(given)
            THEN /\ potcar_types = Append(given, O_s)
                 /\ \A k \in 1..Len(OxidePotcars) :
                       /\ Len(OxidePotcars[k].types) = 2
                       /\ OxidePotcars[k].types[2] = O_s
                 /\ pc = "idle" =>
                       \E j \in 1..Len(log) :
                          /\ log[j].op = "relax"
                          /\ log[j].dir = Append(calls.cwd, O)
            ELSE /\ potcar_types = given
                 /\ \E k \in 1..Len(given) :
                       /\ Split0(given[k]) = O
                       /\ \A j \in 1..(k - 1) : Split0(given[j]) # O
                       /\ \A m \in 1..Len(OxidePotcars) :
                             /\ Len(OxidePotcars[m].types) = 2
                             /\ OxidePotcars[m].types[2] = given[k]

\* C4's case: a call without an oxygen entry has returned after writing an
\* oxide POTCAR with the default 'O_s'.
C4_Witness ==
    /\ InRelaxReferences
    /\ pc = "idle"
    /\ ~HasOxygen(calls.types)
    /\ Len(OxidePotcars) > 0
    /\ OxidePotcars[1].types = <<Mo_pv, O_s>>

\* The directories relax_references is to set up for a list, in order:
\* each entry's element directory, then its 'oxide' unless the symbol is
\* one of O, S, F, Cl, Br, I.
RECURSIVE ExpectedSetups(_, _)
ExpectedSetups(types, base) ==
    IF types = <<>> THEN <<>>
    ELSE LET sym == Split0(Head(types))
         IN  <<Append(base, sym)>>
             \o (IF sym \in {O, S, F, Cl, Br, I} THEN <<>>
                 ELSE <<base \o <<sym, oxide>>>>)
             \o ExpectedSetups(Tail(types), base)

\* The directories a relaxation was set up in, in order.
RECURSIVE DirsOf(_)
DirsOf(events) ==
    IF events = <<>> THEN <<>>
    ELSE <<Head(events).dir>> \o DirsOf(Tail(events))
RelaxDirs == DirsOf(SelectSeq(log, LAMBDA ev : ev.op = "relax"))
MadeDirs == DirsOf(SelectSeq(log, LAMBDA ev : ev.op = "mkdir"))
IsPrefix(s, t) == Len(s) <= Len(t) /\ s = SubSeq(t, 1, Len(s))

\* C5: relax_references sets up one relaxation per entry of potcar_types
\* (after the oxygen default is added) in the directory named by the
\* entry's symbol, and one in its 'oxide' subdirectory exactly when the
\* symbol is not one of O, S, F, Cl, Br, I, the element before its oxide
\* and the entries in list order; it makes only these directories, and
\* only those that did not exist.
C5_Layout ==
    InRelaxReferences =>
        LET expected == ExpectedSetups(potcar_types, calls.cwd)
        IN  /\ IsPrefix(RelaxDirs, expected)
            /\ pc = "idle" =>
                  /\ RelaxDirs = expected
                  /\ Range(expected) \subseteq dirs
            /\ \A j \in 1..Len(MadeDirs) :
                  /\ MadeDirs[j] \in Range(expected)
                  /\ MadeDirs[j] \notin calls.dirs
                  /\ \A k \in 1..Len(MadeDirs) :
                        MadeDirs[k] = MadeDirs[j] => k = j
            /\ dirs = calls.dirs \cup Range(MadeDirs)

\* C5's case: a call has returned that set up an element twice (one new
\* directory for two entries), its oxide, and a special element without.
C5_Witness ==
    /\ InRelaxReferences
    /\ pc = "idle"
    /\ potcar_types = <<Mo_pv, Mo_pv, O_s>>
    /\ Len(RelaxDirs) = 5
    /\ Range(MadeDirs) = {Home \o <<Mo>>, Home \o <<Mo, oxide>>,
                          Home \o <<O>>}

\* The rows of the table whose compound holds the element sym beside
\* oxygen.
RowsOf(tbl, sym) ==
    {k \in 1..Len(tbl) :
        sym \in {c[1] : c \in Range(tbl[k].compound)} \ {O}}

\* C7: get_experimental_formation_energies returns an entry for the
\* non-oxygen element of every compound of the table and no other; the
\* entry is that of the element's last compound in iteration order, and
\* equals (delta_H - delta_S) / 22.06035 with delta_S = (S_cmpd -
\* (S_elt * n_elt + 38.48 * n_O)) * 298 / 1000; the table is as it was.
C7_FormationEnergies ==
    (InGetCorrections /\ pc \notin {"idle", "gef"}) =>
        /\ table = calls.table
        /\ DOMAIN formation_energies =
              {sym \in {Mo, N, O, S} : RowsOf(table, sym) # {}}
        /\ \A sym \in DOMAIN formation_energies :
              LET last == CHOOSE k \in RowsOf(table, sym) :
                             \A j \in RowsOf(table, sym) : j <= k
                  row == table[last]
                  n_elt == Amount(row.compound, sym)
                  n_O == Amount(row.compound, O)
                  delta_S ==
                      FDiv(FMul(FSub(Float(row.S_cmpd),
                                     FAdd(FMul(Float(row.S_elt),
                                               FloatOf(n_elt)),
                                          FMul(Float(Norm(3848, 100)),
                                               FloatOf(n_O)))),
                                FloatOf(298)),
                           FloatOf(1000))
              IN  formation_energies[sym] =
                      FDiv(FSub(Float(row.delta_H), delta_S),
                           Float(Norm(2206035, 100000)))

\* C7's case: the function has returned for a table with two compounds of
\* Mo and one with two atoms of N per formula.
C7_Witness ==
    /\ InGetCorrections
    /\ pc = "gc_special"
    /\ table = <<MoO2, MoO3, N2O5>>
    /\ formation_energies[Mo] = Float(Norm(-34, 5))
    /\ formation_energies[N] # FloatOf(2)
    /\ Round3(formation_energies[N]) = FloatOf(2)

\* C8: when relax_references or get_corrections returns, the working
\* directory is the one the call started in, and every pass of their loops
\* starts there too.
C8_WorkingDirectoryRestored ==
    pc \in {"idle", "rr_elt", "gc_special", "gc_elt", "gc_done"}
        => cwd = calls.cwd

\* C8's case: get_corrections has returned after entering an element's
\* oxide directory, in a tree relax_references had laid out before.
C8_Witness ==
    /\ calls.done
    /\ InGetCorrections
    /\ pc = "gc_done"
    /\ \E e \in DOMAIN corrections :
          calls.cwd \o <<e, oxide>> \in DOMAIN parsed

\* C9: once relax_references has returned, the working directory holds an
\* 'O' directory, and a get_corrections called then has mu0['O'] at line
\* 162 (unless a special element's run made it stop before) and from
\* there on.
C9_OxygenDirectory ==
    calls.done =>
        /\ Append(calls.cwd, O) \in dirs
        /\ InGetCorrections =>
              /\ (pc = "gc_special" /\ special_elts = {}) => O \in DOMAIN mu0
              /\ pc \in {"gc_elt", "gc_oxide", "gc_done"} => O \in DOMAIN mu0
              /\ pc = "raised" => err.line # 162

\* C9's case: the 'O' directory is the only one, made by relax_references,
\* and get_corrections is past line 162.
C9_Witness ==
    /\ calls.done
    /\ InGetCorrections
    /\ pc = "gc_elt"
    /\ dirs = {<<>>, Home, Home \o <<O>>}
    /\ O \in DOMAIN mu0

\* C10: a second call of relax_references from the same directory with the
\* list the first call left does not fail, makes no directory and leaves
\* the list as it is.
C10_Idempotent ==
    (InRelaxReferences /\ calls.again) =>
        /\ pc # "raised"
        /\ dirs = calls.dirs
        /\ MadeDirs = <<>>
        /\ potcar_types = calls.types

\* C10's case: a second call has returned for a list that has an oxide to
\* set up and ends with the default 'O_s'.
C10_Witness ==
    /\ InRelaxReferences
    /\ calls.again
    /\ pc = "idle"
    /\ potcar_types = <<Mo_pv, O_s>>
    /\ Len(RelaxDirs) = 3

=============================================================================
